---- MODULE Spec2Model ----
(***************************************************************************)
(* State-machine model of the daily-scrum tool scripts:                    *)
(*   scripts/submit_standup_update.py   (Submitter)                        *)
(*   scripts/notify_users.py            (Notifier)                         *)
(*   scripts/generate_standup_report.py (Reporter)                         *)
(* Texts are TLA+ strings handled character by character, so that          *)
(* lower-casing, stripping, substring search and JSON parsing are computed *)
(* the way the Python code computes them.                                  *)
(***************************************************************************)
EXTENDS Integers, Sequences, FiniteSets, TLC

VARIABLES
  cl,     \* one call of analyze_blockers_with_llm: arguments, outcome, result
  ntf,    \* the Notifier process (notify_users.py)
  rep,    \* the Reporter process (generate_standup_report.py)
  table,  \* the rows of the Airtable table the Submitter writes
  sub,    \* the Submitter processes (submit_standup_update.py), by process
  runs    \* Submitter invocations started so far

vars == <<cl, ntf, rep, table, sub, runs>>

\* ------------------------------------------------------------------------
\* Python str helpers
\* ------------------------------------------------------------------------

CharAt(s, i) == SubSeq(s, i, i)

Rest(s, i) == SubSeq(s, i, Len(s))

\* str.lower() on one character (ASCII letters; every other character is
\* left as it is)
LowerChar(c) ==
  CASE c = "A" -> "a" [] c = "B" -> "b" [] c = "C" -> "c" [] c = "D" -> "d"
    [] c = "E" -> "e" [] c = "F" -> "f" [] c = "G" -> "g" [] c = "H" -> "h"
    [] c = "I" -> "i" [] c = "J" -> "j" [] c = "K" -> "k" [] c = "L" -> "l"
    [] c = "M" -> "m" [] c = "N" -> "n" [] c = "O" -> "o" [] c = "P" -> "p"
    [] c = "Q" -> "q" [] c = "R" -> "r" [] c = "S" -> "s" [] c = "T" -> "t"
    [] c = "U" -> "u" [] c = "V" -> "v" [] c = "W" -> "w" [] c = "X" -> "x"
    [] c = "Y" -> "y" [] c = "Z" -> "z" [] OTHER -> c

RECURSIVE Lower(_)
Lower(s) == IF Len(s) = 0 THEN "" ELSE LowerChar(CharAt(s, 1)) \o Lower(Rest(s, 2))

IsSpace(c) == c \in {" ", "\t", "\n", "\r"}

RECURSIVE LStrip(_)
LStrip(s) == IF Len(s) > 0 /\ IsSpace(CharAt(s, 1)) THEN LStrip(Rest(s, 2)) ELSE s

RECURSIVE RStrip(_)
RStrip(s) ==
  IF Len(s) > 0 /\ IsSpace(CharAt(s, Len(s)))
  THEN RStrip(SubSeq(s, 1, Len(s) - 1))
  ELSE s

\* str.strip()
Strip(s) == RStrip(LStrip(s))

\* s.startswith(k, i - 1): k occurs in s at (1-based) position i
StartsAt(s, k, i) == i + Len(k) - 1 <= Len(s) /\ SubSeq(s, i, i + Len(k) - 1) = k

\* s.find(k) scanning from position i: the first position >= i where k
\* occurs, or 0 when there is none
RECURSIVE FindFrom(_, _, _)
FindFrom(s, k, i) ==
  IF i + Len(k) - 1 > Len(s) THEN 0
  ELSE IF SubSeq(s, i, i + Len(k) - 1) = k THEN i
  ELSE FindFrom(s, k, i + 1)

\* the Python operator `k in s`
Contains(s, k) == FindFrom(s, k, 1) # 0

\* ------------------------------------------------------------------------
\* json.loads, for the JSON texts of this model: null, true, false,
\* non-negative integers, strings without escapes, arrays and objects, with
\* white space between tokens.  A parse step returns [ok, v, i]: whether a
\* value was read, the value, and the position after it.
\* ------------------------------------------------------------------------

JNull == [t |-> "null"]

JBool(b) == [t |-> "bool", b |-> b]

JNum(digits) == [t |-> "num", n |-> digits]

JStr(s) == [t |-> "str", s |-> s]

JArr(elems) == [t |-> "arr", a |-> elems]

\* a Python dict: a sequence of [k, v] entries with distinct keys, in
\* insertion order
JObj(entries) == [t |-> "obj", m |-> entries]

ParseFail == [ok |-> FALSE, v |-> JNull, i |-> 0]

ParseOk(v, i) == [ok |-> TRUE, v |-> v, i |-> i]

\* dict[k] = v: replaces the value of a key already present, else appends
DictSet(entries, k, v) ==
  IF \E j \in 1..Len(entries) : entries[j].k = k
  THEN [j \in 1..Len(entries) |->
          IF entries[j].k = k THEN [k |-> k, v |-> v] ELSE entries[j]]
  ELSE Append(entries, [k |-> k, v |-> v])

IsDigit(c) == c \in {"0", "1", "2", "3", "4", "5", "6", "7", "8", "9"}

RECURSIVE SkipWs(_, _)
SkipWs(s, i) == IF i <= Len(s) /\ IsSpace(CharAt(s, i)) THEN SkipWs(s, i + 1) ELSE i

RECURSIVE DigitsEnd(_, _)
DigitsEnd(s, i) == IF i <= Len(s) /\ IsDigit(CharAt(s, i)) THEN DigitsEnd(s, i + 1) ELSE i

\* a number at position i: "0", or a non-zero digit followed by digits
ParseNumber(s, i) ==
  LET e == IF CharAt(s, i) = "0" THEN i + 1 ELSE DigitsEnd(s, i)
  IN  ParseOk(JNum(SubSeq(s, i, e - 1)), e)

\* a string whose opening quote is at position i; a control character ends
\* the parse with an error, and so does a backslash (escapes are outside
\* the texts of this model)
RECURSIVE StringEnd(_, _)
StringEnd(s, i) ==
  IF i > Len(s) THEN 0
  ELSE IF CharAt(s, i) = "\"" THEN i
  ELSE IF CharAt(s, i) \in {"\\", "\n", "\t", "\r"} THEN 0
  ELSE StringEnd(s, i + 1)

ParseString(s, i) ==
  LET e == StringEnd(s, i + 1)
  IN  IF e = 0 THEN ParseFail ELSE ParseOk(JStr(SubSeq(s, i + 1, e - 1)), e + 1)

RECURSIVE ParseValue(_, _)
RECURSIVE ParseElems(_, _, _)
RECURSIVE ParseMembers(_, _, _)

\* the elements of an array after "[" or ","; acc holds those read so far
ParseElems(s, i, acc) ==
  LET r == ParseValue(s, SkipWs(s, i))
      j == SkipWs(s, r.i)
  IN  IF ~r.ok THEN ParseFail
      ELSE IF j > Len(s) THEN ParseFail
      ELSE IF CharAt(s, j) = "," THEN ParseElems(s, j + 1, Append(acc, r.v))
      ELSE IF CharAt(s, j) = "]" THEN ParseOk(JArr(Append(acc, r.v)), j + 1)
      ELSE ParseFail

\* the members of an object after "{" or ","; acc holds the dict so far
ParseMembers(s, i, acc) ==
  LET ki == SkipWs(s, i)
      kr == IF ki <= Len(s) /\ CharAt(s, ki) = "\"" THEN ParseString(s, ki) ELSE ParseFail
      ci == SkipWs(s, kr.i)
      vr == IF kr.ok /\ ci <= Len(s) /\ CharAt(s, ci) = ":"
            THEN ParseValue(s, SkipWs(s, ci + 1))
            ELSE ParseFail
      j  == SkipWs(s, vr.i)
      d  == DictSet(acc, kr.v.s, vr.v)
  IN  IF ~kr.ok \/ ~vr.ok THEN ParseFail
      ELSE IF j > Len(s) THEN ParseFail
      ELSE IF CharAt(s, j) = "," THEN ParseMembers(s, j + 1, d)
      ELSE IF CharAt(s, j) = "}" THEN ParseOk(JObj(d), j + 1)
      ELSE ParseFail

\* one JSON value starting exactly at position i
ParseValue(s, i) ==
  IF i > Len(s) THEN ParseFail
  ELSE IF StartsAt(s, "null", i) THEN ParseOk(JNull, i + 4)
  ELSE IF StartsAt(s, "true", i) THEN ParseOk(JBool(TRUE), i + 4)
  ELSE IF StartsAt(s, "false", i) THEN ParseOk(JBool(FALSE), i + 5)
  ELSE IF CharAt(s, i) = "\"" THEN ParseString(s, i)
  ELSE IF IsDigit(CharAt(s, i)) THEN ParseNumber(s, i)
  ELSE IF CharAt(s, i) = "["
       THEN LET j == SkipWs(s, i + 1)
            IN  IF j <= Len(s) /\ CharAt(s, j) = "]"
                THEN ParseOk(JArr(<<>>), j + 1)
                ELSE ParseElems(s, i + 1, <<>>)
  ELSE IF CharAt(s, i) = "{"
       THEN LET j == SkipWs(s, i + 1)
            IN  IF j <= Len(s) /\ CharAt(s, j) = "}"
                THEN ParseOk(JObj(<<>>), j + 1)
                ELSE ParseMembers(s, i + 1, <<>>)
  ELSE ParseFail

\* json.loads(s): one value, white space allowed around it, nothing after
\* it; ok = FALSE stands for json.JSONDecodeError
JsonLoads(s) ==
  LET r == ParseValue(s, SkipWs(s, 1))
  IN  IF r.ok /\ SkipWs(s, r.i) = Len(s) + 1 THEN r ELSE ParseFail

\* value["key"] on a parsed value: defined only on a dict that has the key
\* (KeyError on a dict without it, TypeError on any other JSON value)
HasKey(v, k) == v.t = "obj" /\ \E j \in 1..Len(v.m) : v.m[j].k = k

GetKey(v, k) == LET j == CHOOSE j \in 1..Len(v.m) : v.m[j].k = k IN v.m[j].v

\* Python truthiness of a JSON value
Truthy(v) ==
  CASE v.t = "null" -> FALSE
    [] v.t = "bool" -> v.b
    [] v.t = "num"  -> v.n # "0"
    [] v.t = "str"  -> v.s # ""
    [] v.t = "arr"  -> v.a # <<>>
    [] v.t = "obj"  -> v.m # <<>>

\* ------------------------------------------------------------------------
\* Blocker classification (submit_standup_update.py)
\* ------------------------------------------------------------------------

\* an optional argument: <<>> is Python's None, <<s>> is the string s
None == <<>>

Some(s) == <<s>>

\* `x or ''` for an optional string
OrEmpty(x) == IF x = None THEN "" ELSE x[1]

\* truthiness of an optional string: neither None nor ''
Given(x) == x # None /\ x[1] # ""

\* the fixed keywords of the fallback, in list order
blocker_keywords ==
  <<"blocked", "blocker", "impediment", "waiting for", "can't", "unable",
    "stuck", "issue", "problem">>

NoBlockersText == "No blockers identified"

\* the dict both fallbacks return
Analysis(has_blockers, summary) ==
  JObj(<<[k |-> "has_blockers", v |-> JBool(has_blockers)],
         [k |-> "summary", v |-> JStr(summary)]>>)

\* (variant: the text is searched as typed, without .lower())
text_to_check_as_typed(yesterday, today, blockers) ==
  yesterday \o " " \o today \o " " \o OrEmpty(blockers)

\* the text the keyword fallback searches
text_to_check(yesterday, today, blockers) ==
  Lower(yesterday \o " " \o today \o " " \o OrEmpty(blockers))

\* (variant: the summary is the blockers argument whenever a keyword matched)
KeywordFallbackSummaryAsGiven(yesterday, today, blockers) ==
  LET text == text_to_check(yesterday, today, blockers)
      has_blockers ==
        \E n \in 1..Len(blocker_keywords) : Contains(text, blocker_keywords[n])
  IN  Analysis(has_blockers, IF has_blockers THEN OrEmpty(blockers) ELSE NoBlockersText)

\* the except branch: keyword detection over the user's own text
KeywordFallback(yesterday, today, blockers) ==
  LET text == text_to_check(yesterday, today, blockers)
      has_blockers ==
        \E n \in 1..Len(blocker_keywords) : Contains(text, blocker_keywords[n])
  IN  Analysis(has_blockers,
               IF Given(blockers) /\ has_blockers THEN blockers[1] ELSE NoBlockersText)

\* (variant: "true" alone flags a blocker)
ResponseHeuristicTrueOnly(llm_response) ==
  LET has_blockers == Contains(Lower(llm_response), "true")
  IN  Analysis(has_blockers, IF has_blockers THEN llm_response ELSE NoBlockersText)

\* the except json.JSONDecodeError branch: heuristic over the response text
ResponseHeuristic(llm_response) ==
  LET low == Lower(llm_response)
      has_blockers ==
        Contains(low, "true") /\ (Contains(low, "blocker") \/ Contains(low, "impediment"))
  IN  Analysis(has_blockers, IF has_blockers THEN llm_response ELSE NoBlockersText)

\* what is done with the content of a completion that returned text
FromResponse(content) ==
  LET llm_response == Strip(content)
      parsed == JsonLoads(llm_response)
  IN  IF parsed.ok THEN parsed.v ELSE ResponseHeuristic(llm_response)

\* An outcome of litellm.completion as the function sees it:
\*   kind "raises"     the call raised
\*   kind "no_content" the call returned, and choices[0].message.content is
\*                     None (content.strip() raises AttributeError)
\*   kind "text"       the call returned the string `text`
Raises == [kind |-> "raises", text |-> ""]

NoContent == [kind |-> "no_content", text |-> ""]

Text(s) == [kind |-> "text", text |-> s]

analyze_blockers_with_llm(yesterday, today, blockers, outcome) ==
  IF outcome.kind = "text"
  THEN FromResponse(outcome.text)
  ELSE KeywordFallback(yesterday, today, blockers)

\* which of the three branches produced the result
analysis_path(outcome) ==
  IF outcome.kind = "text"
  THEN IF JsonLoads(Strip(outcome.text)).ok THEN "json" ELSE "response_heuristic"
  ELSE "keyword_fallback"

\* ------------------------------------------------------------------------
\* Classification on its own: every argument and completion outcome of the
\* pools below, then one call
\* ------------------------------------------------------------------------

UserTexts ==
  {"Fixed the login bug", "I'm stuck", "Waiting", "for review of PR",
   "STUCK on deploy", "un", "able", "Can't merge", ""}

BlockerTexts ==
  {None, Some(""), Some("Waiting for DevOps"), Some("none today"),
   Some("BLOCKED by infra")}

ResponseTexts ==
  {"{\"has_blockers\": true, \"summary\": \"waiting on X\"}",
   "{\"has_blockers\": false, \"summary\": \"No blockers identified\"}",
   "\n{ \"has_blockers\" :true ,\"summary\":\"\" }\t",
   "{\"has_blockers\": \"false\", \"summary\": \"none\"}",
   "{\"has_blockers\": true, \"summary\": \"a\", \"has_blockers\": false}",
   "{\"has_blockers\": true, \"summary\": \"x\"} ok",
   "{}", "{\"has_blockers\": true}", "{\"summary\": \"stuck\"}",
   "[true, \"blocker\"]", "true", "42", "null", "\"blocker: true\"",
   "True: blocker found", " true, an impediment\n", "TRUE BLOCKER",
   "No blockers here", "it is true", "", "[1,]"}

Outcomes == {Raises, NoContent} \cup {Text(s) : s \in ResponseTexts}

ClIdle ==
  cl = [pc |-> "idle", yesterday |-> "", today |-> "", blockers |-> None,
        outcome |-> Raises, result |-> JNull, path |-> ""]

ClInit ==
  \E y \in UserTexts, t \in UserTexts, b \in BlockerTexts, o \in Outcomes :
    cl = [pc |-> "call", yesterday |-> y, today |-> t, blockers |-> b,
          outcome |-> o, result |-> JNull, path |-> ""]

ClAnalyze ==
  /\ cl.pc = "call"
  /\ cl' = [cl EXCEPT
       !.pc = "returned",
       !.result = analyze_blockers_with_llm(cl.yesterday, cl.today, cl.blockers, cl.outcome),
       !.path = analysis_path(cl.outcome)]
  /\ UNCHANGED <<ntf, rep, table, sub, runs>>

\* ------------------------------------------------------------------------
\* Rows of the table.  A row is [id, fields, by]: fields maps the names of
\* the columns the row has a value in to JSON values; by is the email of
\* the Submitter run that created the row ("" for a row that was there
\* before).
\* ------------------------------------------------------------------------

\* dict.get(name, default)
FieldGet(fields, name, default) ==
  IF name \in DOMAIN fields THEN fields[name] ELSE default

\* s.split(c)[0]: the text before the first c, or all of s
SplitFirst(s, c) ==
  LET i == FindFrom(s, c, 1) IN IF i = 0 THEN s ELSE SubSeq(s, 1, i - 1)

\* all sequences over S of length at most n
SeqsUpTo(S, n) == UNION {[1..k -> S] : k \in 0..n}

JaneEmail == "jane.doe@example.com"

BobEmail == "bob@example.com"

\* ------------------------------------------------------------------------
\* Reporter (generate_standup_report.py)
\* ------------------------------------------------------------------------

MaxRows == 2

ReportRows ==
  {[id |-> 1, by |-> "",
    fields |-> [n \in {"Email", "Yesterday", "Today", "Blockers"} |->
                  CASE n = "Email" -> JStr(JaneEmail)
                    [] n = "Yesterday" -> JStr("Fixed the login bug")
                    [] n = "Today" -> JStr("Write docs")
                    [] n = "Blockers" -> JStr("Waiting for DevOps")]],
   [id |-> 2, by |-> "",
    fields |-> [n \in {"Email", "Yesterday", "Today"} |->
                  CASE n = "Email" -> JStr(BobEmail)
                    [] n = "Yesterday" -> JStr("Reviewed PRs")
                    [] n = "Today" -> JStr("Deploy")]],
   [id |-> 3, by |-> "",
    fields |-> [n \in {"Email", "Blockers"} |->
                  CASE n = "Email" -> JStr(BobEmail)
                    [] n = "Blockers" -> JStr("")]],
   [id |-> 4, by |-> "", fields |-> [n \in {} |-> JNull]],
   [id |-> 5, by |-> "",
    fields |-> [n \in {"Blockers"} |-> JStr("none")]]}

TodayDate == "2026-01-05"

RepIdle ==
  rep = [pc |-> "idle", configured |-> FALSE, rows |-> <<>>, records |-> <<>>, i |-> 0,
         reports |-> <<>>, has_blockers |-> FALSE, emitted |-> FALSE,
         queries |-> 0, exit_code |-> 0]

\* rows: what the date-filtered query will return if it succeeds;
\* configured: the three AIRTABLE_* variables are set
RepInit ==
  \E rows \in SeqsUpTo(ReportRows, MaxRows), configured \in BOOLEAN :
    rep = [pc |-> "query", configured |-> configured, rows |-> rows,
           records |-> <<>>, i |-> 0,
           reports |-> <<>>, has_blockers |-> FALSE, emitted |-> FALSE,
           queries |-> 0, exit_code |-> 0]

\* get_todays_standup_reports: os.environ[...] raises KeyError for a
\* variable that is not set, which nothing catches
RepNoConfig ==
  /\ rep.pc = "query"
  /\ ~rep.configured
  /\ rep' = [rep EXCEPT !.pc = "exited", !.exit_code = 1]
  /\ UNCHANGED <<cl, ntf, table, sub, runs>>

\* get_todays_standup_reports: table.all(formula=...) returns or raises
RepQuery(ok) ==
  /\ rep.pc = "query"
  /\ rep.configured
  /\ rep' = IF ok
            THEN [rep EXCEPT !.pc = "transform", !.records = rep.rows, !.i = 1,
                             !.queries = @ + 1]
            ELSE [rep EXCEPT !.pc = "exited", !.exit_code = 1, !.queries = @ + 1]
  /\ UNCHANGED <<cl, ntf, table, sub, runs>>

\* the report dict built from one record
ReportOf(record) ==
  LET fields == record.fields
      email == FieldGet(fields, "Email", JStr("Unknown"))
  IN  [name |-> SplitFirst(email.s, "@"),
       email |-> email,
       yesterday |-> FieldGet(fields, "Yesterday", JStr("No update provided")),
       today |-> FieldGet(fields, "Today", JStr("No update provided")),
       blockers |-> FieldGet(fields, "Blockers", JNull)]

\* (variant: `if report["blockers"] is not None`)
ReportHasBlockersNotNone(report) == report.blockers # JNull

\* `if report["blockers"]`
ReportHasBlockers(report) == Truthy(report.blockers)

\* one iteration of `for record in records`
RepTransform ==
  /\ rep.pc = "transform"
  /\ rep.i <= Len(rep.records)
  /\ LET report == ReportOf(rep.records[rep.i])
     IN  rep' = [rep EXCEPT
           !.has_blockers = IF ReportHasBlockers(report) THEN TRUE ELSE @,
           !.reports = Append(@, report),
           !.i = @ + 1]
  /\ UNCHANGED <<cl, ntf, table, sub, runs>>

\* the loop is over: json.dumps and print
RepEmit ==
  /\ rep.pc = "transform"
  /\ rep.i > Len(rep.records)
  /\ rep' = [rep EXCEPT !.pc = "done", !.emitted = TRUE]
  /\ UNCHANGED <<cl, ntf, table, sub, runs>>

\* the document printed: {date, reports, has_blockers}
RepDocument ==
  [date |-> TodayDate, reports |-> rep.reports, has_blockers |-> rep.has_blockers]

RepNext ==
  \/ RepNoConfig
  \/ \E ok \in BOOLEAN : RepQuery(ok)
  \/ RepTransform
  \/ RepEmit

\* ------------------------------------------------------------------------
\* Notifier (notify_users.py)
\* ------------------------------------------------------------------------

\* s.split(c): the pieces between the occurrences of the character c
RECURSIVE Split(_, _)
Split(s, c) ==
  LET i == FindFrom(s, c, 1)
  IN  IF i = 0 THEN <<s>> ELSE <<SubSeq(s, 1, i - 1)>> \o Split(Rest(s, i + 1), c)

\* [email.strip() for email in pieces if email.strip()]
RECURSIVE StripNonEmpty(_)
StripNonEmpty(pieces) ==
  IF pieces = <<>> THEN <<>>
  ELSE (IF Strip(Head(pieces)) # "" THEN <<Strip(Head(pieces))>> ELSE <<>>)
       \o StripNonEmpty(Tail(pieces))

\* the command-line arguments after the script's name
ArgvPool ==
  {<<>>,
   <<"a@x.io">>,
   <<"a@x.io,b@x.io">>,
   <<"a@x.io,b@x.io,c@x.io">>,
   <<" a@x.io , ,b@x.io">>,
   <<" , ">>,
   <<"a@x.io", "b@x.io">>}

\* how a Slack call ends: a 200 response with ok = true, a response with
\* another status or ok = false, or an exception raised by requests
SlackResults == {"ok", "bad_status", "raises"}

NtfIdle ==
  ntf = [pc |-> "idle", team_emails |-> <<>>, argv |-> <<>>, token |-> FALSE,
         emails |-> <<>>, i |-> 0, calls |-> <<>>, caught |-> {}, exit_code |-> 0]

NtfInit ==
  \E argv \in ArgvPool, token \in BOOLEAN :
    ntf = [pc |-> "main", team_emails |-> <<>>, argv |-> argv, token |-> token,
           emails |-> <<>>, i |-> 0, calls |-> <<>>, caught |-> {}, exit_code |-> 0]

\* the notify_standup tool (scrum_tools/tools/notify.py).  Its command line
\* is the template
\*   python /opt/scripts/notify_users.py {{ range .team_emails }}"{{ . }}" {{ end }}
\* RenderArgs is the text the template produces after the script's name
RECURSIVE RenderArgs(_)
RenderArgs(team_emails) ==
  IF team_emails = <<>> THEN ""
  ELSE "\"" \o Head(team_emails) \o "\" " \o RenderArgs(Tail(team_emails))

\* the end of an unquoted word that starts at position i: the position of
\* the next white space, or one past the end of the text
RECURSIVE WordEnd(_, _)
WordEnd(s, i) == IF i > Len(s) \/ IsSpace(CharAt(s, i)) THEN i ELSE WordEnd(s, i + 1)

\* the words the shell makes of that text: white space separates words, and
\* a word written between double quotes is the text between the quotes (the
\* addresses of this model hold no character the shell expands)
RECURSIVE ShellWords(_)
ShellWords(s) ==
  LET t == LStrip(s)
      q == FindFrom(t, "\"", 2)
      e == WordEnd(t, 1)
  IN  IF t = "" THEN <<>>
      ELSE IF CharAt(t, 1) = "\"" /\ q # 0
           THEN <<SubSeq(t, 2, q - 1)>> \o ShellWords(Rest(t, q + 1))
           ELSE <<SubSeq(t, 1, e - 1)>> \o ShellWords(Rest(t, e))

MaxTeam == 3

\* the team_emails argument of a tool invocation
TeamEmailsPool == SeqsUpTo({"a@x.io", "b@x.io", "c@x.io"}, MaxTeam)

\* the tool is invoked with team_emails: the script starts with the words of
\* the rendered command line as its arguments
NtfToolInit ==
  \E team_emails \in TeamEmailsPool, token \in BOOLEAN :
    ntf = [pc |-> "main", team_emails |-> team_emails,
           argv |-> ShellWords(RenderArgs(team_emails)), token |-> token,
           emails |-> <<>>, i |-> 0, calls |-> <<>>, caught |-> {}, exit_code |-> 0]

\* __main__: usage check, then the comma-separated list in the first argument
NtfMain ==
  /\ ntf.pc = "main"
  /\ ntf' =
       IF Len(ntf.argv) < 1
       THEN [ntf EXCEPT !.pc = "exited", !.exit_code = 1]
       ELSE LET user_emails == StripNonEmpty(Split(ntf.argv[1], ","))
            IN  IF user_emails = <<>>
                THEN [ntf EXCEPT !.pc = "exited", !.exit_code = 1]
                ELSE [ntf EXCEPT !.pc = "lookup", !.emails = user_emails, !.i = 1]
  /\ UNCHANGED <<cl, rep, table, sub, runs>>

\* notify_team moves on to the next email, or returns after the last
NtfAdvance(n) ==
  IF n.i < Len(n.emails)
  THEN [n EXCEPT !.pc = "lookup", !.i = @ + 1]
  ELSE [n EXCEPT !.pc = "done", !.exit_code = 0]

\* sys.exit(1) inside notify_user: SystemExit is not an Exception, so the
\* `except Exception` of notify_team does not catch it and the process ends
NtfSysExit(n) == [n EXCEPT !.pc = "exited", !.exit_code = 1]

\* (variant: after a caught exception the same recipient is tried again)
NtfCaughtRetried(n) == [n EXCEPT !.pc = "lookup", !.caught = @ \cup {n.i}]

\* an Exception raised inside notify_user is caught by notify_team
NtfCaught(n) == NtfAdvance([n EXCEPT !.caught = @ \cup {n.i}])

\* what follows a Slack call of notify_user that did not succeed
NtfFailed(n, res) == IF res = "bad_status" THEN NtfSysExit(n) ELSE NtfCaught(n)

\* notify_user without SLACK_API_TOKEN: os.environ[...] raises KeyError
NtfNoToken ==
  /\ ntf.pc = "lookup"
  /\ ~ntf.token
  /\ ntf' = NtfCaught(ntf)
  /\ UNCHANGED <<cl, rep, table, sub, runs>>

\* notify_user: users.lookupByEmail
NtfLookup(res) ==
  /\ ntf.pc = "lookup"
  /\ ntf.token
  /\ LET n == [ntf EXCEPT !.calls =
                 Append(@, [i |-> ntf.i, email |-> ntf.emails[ntf.i],
                            op |-> "lookup", res |-> res])]
     IN  ntf' = IF res = "ok" THEN [n EXCEPT !.pc = "post"] ELSE NtfFailed(n, res)
  /\ UNCHANGED <<cl, rep, table, sub, runs>>

\* notify_user: chat.postMessage
NtfPost(res) ==
  /\ ntf.pc = "post"
  /\ LET n == [ntf EXCEPT !.calls =
                 Append(@, [i |-> ntf.i, email |-> ntf.emails[ntf.i],
                            op |-> "post", res |-> res])]
     IN  ntf' = IF res = "ok" THEN NtfAdvance(n) ELSE NtfFailed(n, res)
  /\ UNCHANGED <<cl, rep, table, sub, runs>>

NtfNext ==
  \/ NtfMain
  \/ NtfNoToken
  \/ \E res \in SlackResults : NtfLookup(res)
  \/ \E res \in SlackResults : NtfPost(res)

\* ------------------------------------------------------------------------
\* Submitter (submit_standup_update.py): the record written
\* ------------------------------------------------------------------------

\* str.upper() on one character (ASCII letters)
UpperChar(c) ==
  CASE c = "a" -> "A" [] c = "b" -> "B" [] c = "c" -> "C" [] c = "d" -> "D"
    [] c = "e" -> "E" [] c = "f" -> "F" [] c = "g" -> "G" [] c = "h" -> "H"
    [] c = "i" -> "I" [] c = "j" -> "J" [] c = "k" -> "K" [] c = "l" -> "L"
    [] c = "m" -> "M" [] c = "n" -> "N" [] c = "o" -> "O" [] c = "p" -> "P"
    [] c = "q" -> "Q" [] c = "r" -> "R" [] c = "s" -> "S" [] c = "t" -> "T"
    [] c = "u" -> "U" [] c = "v" -> "V" [] c = "w" -> "W" [] c = "x" -> "X"
    [] c = "y" -> "Y" [] c = "z" -> "Z" [] OTHER -> c

IsCased(c) == LowerChar(c) # c \/ UpperChar(c) # c

\* str.replace(a, b) for single characters a and b
RECURSIVE Replace(_, _, _)
Replace(s, a, b) ==
  IF Len(s) = 0 THEN ""
  ELSE (IF CharAt(s, 1) = a THEN b ELSE CharAt(s, 1)) \o Replace(Rest(s, 2), a, b)

\* str.title(): a letter that follows a letter is lower-cased, any other
\* letter is upper-cased
RECURSIVE TitleFrom(_, _)
TitleFrom(s, after_cased) ==
  IF Len(s) = 0 THEN ""
  ELSE LET c == CharAt(s, 1)
       IN  (IF after_cased THEN LowerChar(c) ELSE UpperChar(c))
           \o TitleFrom(Rest(s, 2), IsCased(c))

Title(s) == TitleFrom(s, FALSE)

\* user_email.split('@')[0].replace('.', ' ').title()
DisplayName(user_email) == Title(Replace(SplitFirst(user_email, "@"), ".", " "))

Timestamp == "2026-01-05T09:00:00+00:00"

\* the keys of field_mapping
MappedFields ==
  {"Email", "Name", "Yesterday", "Today", "Last_Updated", "Timestamp",
   "Has_Blockers", "Blocker_Summary", "Blockers"}

SummaryField == "Attachment Summary"

\* blocker_analysis["has_blockers"] and ["summary"] can both be evaluated
AnalysisUsable(blocker_analysis) ==
  HasKey(blocker_analysis, "has_blockers") /\ HasKey(blocker_analysis, "summary")

\* field_mapping of a run r (a Submitter process record)
field_mapping(r) ==
  [n \in MappedFields |->
     CASE n = "Email" -> JStr(r.user_email[1])
       [] n = "Name" -> JStr(DisplayName(r.user_email[1]))
       [] n = "Yesterday" -> JStr(r.yesterday)
       [] n = "Today" -> JStr(r.today)
       [] n = "Last_Updated" -> JStr(TodayDate)
       [] n = "Timestamp" -> JStr(Timestamp)
       [] n = "Has_Blockers" -> GetKey(r.blocker_analysis, "has_blockers")
       [] n = "Blocker_Summary" -> GetKey(r.blocker_analysis, "summary")
       [] n = "Blockers" -> JStr(IF Given(r.blockers) THEN r.blockers[1] ELSE "")]

\* standup_summary: the rendering stored in "Attachment Summary" (the two
\* BLOCKER ANALYSIS lines, which print the analysis values, are left out)
standup_summary(r) ==
  "STANDUP UPDATE - " \o TodayDate
    \o "\nUser: " \o r.user_email[1]
    \o "\nName: " \o DisplayName(r.user_email[1])
    \o "\n\nYESTERDAY:\n" \o r.yesterday
    \o "\n\nTODAY:\n" \o r.today
    \o "\n\nBLOCKERS:\n" \o (IF Given(r.blockers) THEN r.blockers[1] ELSE "None")
    \o "\n\nTimestamp: " \o Timestamp

\* (variant: Email and Name are written whether discovered or not)
PayloadFieldsWithIdentity(available_fields) ==
  ((MappedFields \cup {SummaryField}) \cap available_fields) \cup {"Email", "Name"}

\* which names of the payload are written, given the discovered fields
PayloadFields(available_fields) ==
  (MappedFields \cup {SummaryField}) \cap available_fields

\* record_data: "Attachment Summary" if discovered, and the entries of
\* field_mapping whose names were discovered
record_data(r) ==
  [n \in PayloadFields(r.available_fields) |->
     IF n = SummaryField THEN JStr(standup_summary(r)) ELSE field_mapping(r)[n]]

\* ------------------------------------------------------------------------
\* Submitter: one process per invocation
\* ------------------------------------------------------------------------

Procs == {1, 2}

MaxSampleRecords == 3

\* a row with the nine expected columns
FullRow(id, email, blockers) ==
  [id |-> id, by |-> "",
   fields |-> [n \in MappedFields |->
                 CASE n = "Email" -> JStr(email)
                   [] n = "Name" -> JStr(DisplayName(email))
                   [] n = "Has_Blockers" -> JBool(blockers # "")
                   [] n = "Blockers" -> JStr(blockers)
                   [] OTHER -> JStr("earlier")]]

\* a row with a value in the columns `names` only
PartRow(id, email, names) ==
  [id |-> id, by |-> "",
   fields |-> [n \in names |-> IF n = "Email" THEN JStr(email) ELSE JStr("earlier")]]

\* the contents the table may have when the first invocation starts
InitialTables ==
  {<<>>,
   <<FullRow(1, JaneEmail, "")>>,
   <<FullRow(1, BobEmail, "Waiting for DevOps"), FullRow(2, JaneEmail, "")>>,
   <<FullRow(1, JaneEmail, ""), FullRow(2, JaneEmail, "")>>,
   <<PartRow(1, BobEmail, {"Email", "Yesterday", "Today"})>>,
   <<PartRow(1, "", {SummaryField, "Notes"})>>,
   <<PartRow(1, "", {}), FullRow(2, JaneEmail, "")>>}

Fresh ==
  [pc |-> "idle", user_email |-> None,
   env |-> [api_key |-> FALSE, base_id |-> FALSE, table_id |-> FALSE,
            slack_token |-> FALSE, scrum_master_email |-> FALSE],
   yesterday |-> "", today |-> "", blockers |-> None, notify |-> FALSE,
   blocker_analysis |-> JNull, available_fields |-> {}, record_data |-> <<>>,
   existing_records |-> <<>>, calls |-> <<>>, escalation |-> JNull,
   exit_code |-> 0, cause |-> ""]

SubIdle == sub = [p \in Procs |-> Fresh] /\ runs = 0 /\ table = <<>>

SubInit == sub = [p \in Procs |-> Fresh] /\ runs = 0 /\ table \in InitialTables

\* the process has ended, or has not been started
Ended(p) == sub[p].pc \in {"idle", "done", "failed"}

\* one remote call of a run: the operation, how it ended, and for a table
\* write the row id (0 for a create) and the names in the payload
Call(op, res, id, keys) == [op |-> op, res |-> res, id |-> id, keys |-> keys]

Logged(r, call) == [r EXCEPT !.calls = Append(@, call)]

\* (variant: the failure is printed and the process exits with status 0)
FatalExits0(r, cause) == [r EXCEPT !.pc = "done", !.exit_code = 0, !.cause = cause]

\* the process exits with status 1
Fatal(r, cause) == [r EXCEPT !.pc = "failed", !.exit_code = 1, !.cause = cause]

\* the process exits with status 0
Exit0(r) == [r EXCEPT !.pc = "done", !.exit_code = 0]

\* a process is started with one of the invocations `invs` (the environment
\* and the command line), while fewer than `limit` have been started
SubStart(p, invs, limit) ==
  /\ Ended(p)
  /\ runs < limit
  /\ runs' = runs + 1
  /\ \E inv \in invs :
       sub' = [sub EXCEPT ![p] =
         [Fresh EXCEPT !.pc = "main", !.user_email = inv.user_email, !.env = inv.env,
                       !.yesterday = inv.yesterday, !.today = inv.today,
                       !.blockers = inv.blockers, !.notify = inv.notify]]
  /\ UNCHANGED <<cl, ntf, rep, table>>

\* (variant: AIRTABLE_TABLE_ID is not checked)
MissingSettingButTableId(r) ==
  IF ~Given(r.user_email) THEN "KUBIYA_USER_EMAIL"
  ELSE IF ~r.env.api_key THEN "AIRTABLE_API_KEY"
  ELSE IF ~r.env.base_id THEN "AIRTABLE_BASE_ID"
  ELSE ""

\* __main__ and the head of submit_standup_to_airtable: the required
\* settings, checked in this order
MissingSetting(r) ==
  IF ~Given(r.user_email) THEN "KUBIYA_USER_EMAIL"
  ELSE IF ~r.env.api_key THEN "AIRTABLE_API_KEY"
  ELSE IF ~r.env.base_id THEN "AIRTABLE_BASE_ID"
  ELSE IF ~r.env.table_id THEN "AIRTABLE_TABLE_ID"
  ELSE ""

\* (variant: the table is inspected first)
AfterSettingsDiscovery == "discover"

\* what follows the settings checks inside the try: the classification
\* (line 243), which comes before the inspection of the table (line 249)
AfterSettings == "classify"

SubMain(p) ==
  /\ sub[p].pc = "main"
  /\ LET r == sub[p]
     IN  sub' = [sub EXCEPT ![p] =
           IF MissingSetting(r) # ""
           THEN Fatal(r, "missing " \o MissingSetting(r))
           ELSE [r EXCEPT !.pc = AfterSettings]]
  /\ UNCHANGED <<cl, ntf, rep, table, runs>>

\* analyze_blockers_with_llm, with the completion call ending in one of
\* `outcomes`
SubClassify(p, outcomes) ==
  /\ sub[p].pc = "classify"
  /\ \E outcome \in outcomes :
     LET r == sub[p]
         res == IF outcome.kind = "raises" THEN "raises" ELSE "ok"
     IN  sub' = [sub EXCEPT ![p] =
           [Logged(r, Call("completion", res, 0, {}))
              EXCEPT !.pc = "discover",
                     !.blocker_analysis =
                        analyze_blockers_with_llm(r.yesterday, r.today, r.blockers, outcome)]]
  /\ UNCHANGED <<cl, ntf, rep, table, runs>>

\* the field names of the first of the sampled rows, none for an empty table
SampledFields(rows) ==
  LET sample_records == SubSeq(rows, 1, IF Len(rows) < MaxSampleRecords
                                        THEN Len(rows) ELSE MaxSampleRecords)
  IN  IF sample_records # <<>> THEN DOMAIN sample_records[1].fields ELSE {}

\* table.all(max_records=3) returns or raises
SubDiscover(p, ok) ==
  /\ sub[p].pc = "discover"
  /\ LET r == sub[p]
     IN  sub' = [sub EXCEPT ![p] =
           [Logged(r, Call("discover", IF ok THEN "ok" ELSE "raises", 0, {}))
              EXCEPT !.pc = "build",
                     !.available_fields = IF ok THEN SampledFields(table) ELSE {}]]
  /\ UNCHANGED <<cl, ntf, rep, table, runs>>

\* lines 260-307: the payload; reading a key the analysis does not have
\* raises inside the outer try, which ends the process
SubBuild(p) ==
  /\ sub[p].pc = "build"
  /\ LET r == sub[p]
     IN  sub' = [sub EXCEPT ![p] =
           IF AnalysisUsable(r.blocker_analysis)
           THEN [r EXCEPT !.pc = "lookup", !.record_data = record_data(r)]
           ELSE Fatal(r, "analysis")]
  /\ UNCHANGED <<cl, ntf, rep, table, runs>>

\* the ids of the rows whose Email is the user's, in table order
Matching(rows, user_email) ==
  LET F[k \in 0..Len(rows)] ==
        IF k = 0 THEN <<>>
        ELSE IF FieldGet(rows[k].fields, "Email", JNull) = JStr(user_email)
             THEN Append(F[k - 1], rows[k].id)
             ELSE F[k - 1]
  IN  F[Len(rows)]

\* no Email column discovered: no lookup is made
SubNoLookup(p) ==
  /\ sub[p].pc = "lookup"
  /\ "Email" \notin sub[p].available_fields
  /\ sub' = [sub EXCEPT ![p] = [sub[p] EXCEPT !.pc = "write", !.existing_records = <<>>]]
  /\ UNCHANGED <<cl, ntf, rep, table, runs>>

\* table.all(formula="{Email} = '...'") returns or raises
SubLookup(p, ok) ==
  /\ sub[p].pc = "lookup"
  /\ "Email" \in sub[p].available_fields
  /\ LET r == sub[p]
     IN  sub' = [sub EXCEPT ![p] =
           IF ok
           THEN [Logged(r, Call("lookup", "ok", 0, {}))
                   EXCEPT !.pc = "write",
                          !.existing_records = Matching(table, r.user_email[1])]
           ELSE [Logged(r, Call("lookup", "raises", 0, {})) EXCEPT !.pc = "manual"]]
  /\ UNCHANGED <<cl, ntf, rep, table, runs>>

\* the manual search after a failed lookup: table.all() returns or raises
SubManualSearch(p, ok) ==
  /\ sub[p].pc = "manual"
  /\ LET r == sub[p]
     IN  sub' = [sub EXCEPT ![p] =
           [Logged(r, Call("manual_search", IF ok THEN "ok" ELSE "raises", 0, {}))
              EXCEPT !.pc = "write",
                     !.existing_records =
                        IF ok THEN Matching(table, r.user_email[1]) ELSE <<>>]]
  /\ UNCHANGED <<cl, ntf, rep, table, runs>>

\* (variant: existing_records[-1]['id'])
record_id_last(existing_records) == existing_records[Len(existing_records)]

\* existing_records[0]['id']
record_id(existing_records) == existing_records[1]

\* `if existing_records:` chooses between table.update and table.create
WriteOp(existing_records) == IF existing_records # <<>> THEN "update" ELSE "create"

\* table.update(record_id, fields): the named columns of that row are set
Updated(rows, id, fields) ==
  [k \in 1..Len(rows) |->
     IF rows[k].id = id
     THEN [rows[k] EXCEPT !.fields =
             [n \in DOMAIN fields \cup DOMAIN rows[k].fields |->
                IF n \in DOMAIN fields THEN fields[n] ELSE rows[k].fields[n]]]
     ELSE rows[k]]

\* table.create(fields): a new row, with a new id, after the others
Created(rows, fields, by) ==
  Append(rows, [id |-> Len(rows) + 1, by |-> by, fields |-> fields])

\* (variant: the exception of the write is logged and the run goes on)
WriteRaisedLogged(r) == [r EXCEPT !.pc = "escalate"]

\* the write raised: the outer except prints the cause and calls sys.exit(1)
WriteRaised(r) == Fatal(r, "write")

\* table.update or table.create returns or raises; an exception ends the
\* process in the outer except
SubWrite(p, ok) ==
  /\ sub[p].pc = "write"
  /\ LET r == sub[p]
         op == WriteOp(r.existing_records)
         id == IF op = "update" THEN record_id(r.existing_records) ELSE 0
         c == Call(op, IF ok THEN "ok" ELSE "raises", id, DOMAIN r.record_data)
     IN  /\ sub' = [sub EXCEPT ![p] =
              IF ok THEN [Logged(r, c) EXCEPT !.pc = "escalate"]
                    ELSE WriteRaised(Logged(r, c))]
         /\ table' = IF ~ok THEN table
                     ELSE IF op = "update" THEN Updated(table, id, r.record_data)
                     ELSE Created(table, r.record_data, r.user_email[1])
  /\ UNCHANGED <<cl, ntf, rep, runs>>

\* `if blocker_analysis["has_blockers"]:`
Flagged(r) == Truthy(GetKey(r.blocker_analysis, "has_blockers"))

\* no blockers flagged: notify_scrum_master_about_blocker is not called
SubNoEscalation(p) ==
  /\ sub[p].pc = "escalate"
  /\ ~Flagged(sub[p])
  /\ sub' = [sub EXCEPT ![p] = [sub[p] EXCEPT !.pc = "returned"]]
  /\ UNCHANGED <<cl, ntf, rep, table, runs>>

\* (variant: only SLACK_API_TOKEN is looked at)
EscalationConfiguredTokenOnly(r) == r.env.slack_token

\* `if not slack_token or not scrum_master_email: return`, negated
EscalationConfigured(r) == r.env.slack_token /\ r.env.scrum_master_email

\* notify_scrum_master_about_blocker returns at once without both settings
SubEscalationSkipped(p) ==
  /\ sub[p].pc = "escalate"
  /\ Flagged(sub[p])
  /\ ~EscalationConfigured(sub[p])
  /\ sub' = [sub EXCEPT ![p] = [sub[p] EXCEPT !.pc = "returned"]]
  /\ UNCHANGED <<cl, ntf, rep, table, runs>>

\* users.lookupByEmail for the scrum master; every failure is logged and
\* the function returns
SubSmLookup(p, res) ==
  /\ sub[p].pc = "escalate"
  /\ Flagged(sub[p])
  /\ EscalationConfigured(sub[p])
  /\ sub' = [sub EXCEPT ![p] =
       [Logged(sub[p], Call("sm_lookup", res, 0, {}))
          EXCEPT !.pc = IF res = "ok" THEN "sm_post" ELSE "returned"]]
  /\ UNCHANGED <<cl, ntf, rep, table, runs>>

\* chat.postMessage to the scrum master; escalation is the blocker_summary
\* argument (line 344), which the message shows under "Blocker Summary"
SubSmPost(p, res) ==
  /\ sub[p].pc = "sm_post"
  /\ sub' = [sub EXCEPT ![p] =
       [Logged(sub[p], Call("sm_post", res, 0, {}))
          EXCEPT !.pc = "returned",
                 !.escalation = GetKey(sub[p].blocker_analysis, "summary")]]
  /\ UNCHANGED <<cl, ntf, rep, table, runs>>

\* back in __main__ without --notify
SubNoConfirm(p) ==
  /\ sub[p].pc = "returned"
  /\ ~sub[p].notify
  /\ sub' = [sub EXCEPT ![p] = Exit0(sub[p])]
  /\ UNCHANGED <<cl, ntf, rep, table, runs>>

\* notify_submission_success returns at once without SLACK_API_TOKEN
SubConfirmSkipped(p) ==
  /\ sub[p].pc = "returned"
  /\ sub[p].notify
  /\ ~sub[p].env.slack_token
  /\ sub' = [sub EXCEPT ![p] = Exit0(sub[p])]
  /\ UNCHANGED <<cl, ntf, rep, table, runs>>

\* what follows a Slack call of notify_submission_success that did not
\* succeed: an error response is printed and the function returns; an
\* exception is caught nowhere and ends the process with a traceback
ConfirmFailed(r, res) ==
  IF res = "raises" THEN Fatal(r, "confirmation") ELSE Exit0(r)

\* notify_submission_success: users.lookupByEmail
SubConfirmLookup(p, res) ==
  /\ sub[p].pc = "returned"
  /\ sub[p].notify
  /\ sub[p].env.slack_token
  /\ LET r == Logged(sub[p], Call("confirm_lookup", res, 0, {}))
     IN  sub' = [sub EXCEPT ![p] =
           IF res = "ok" THEN [r EXCEPT !.pc = "confirm_post"] ELSE ConfirmFailed(r, res)]
  /\ UNCHANGED <<cl, ntf, rep, table, runs>>

\* notify_submission_success: chat.postMessage
SubConfirmPost(p, res) ==
  /\ sub[p].pc = "confirm_post"
  /\ LET r == Logged(sub[p], Call("confirm_post", res, 0, {}))
     IN  sub' = [sub EXCEPT ![p] =
           IF res = "ok" THEN Exit0(r) ELSE ConfirmFailed(r, res)]
  /\ UNCHANGED <<cl, ntf, rep, table, runs>>

\* the steps of a started process other than the classification and the
\* building of the payload
SubOtherSteps(p) ==
  \/ SubMain(p)
  \/ \E ok \in BOOLEAN : SubDiscover(p, ok)
  \/ SubNoLookup(p)
  \/ \E ok \in BOOLEAN : SubLookup(p, ok)
  \/ \E ok \in BOOLEAN : SubManualSearch(p, ok)
  \/ \E ok \in BOOLEAN : SubWrite(p, ok)
  \/ SubNoEscalation(p)
  \/ SubEscalationSkipped(p)
  \/ \E res \in SlackResults : SubSmLookup(p, res)
  \/ \E res \in SlackResults : SubSmPost(p, res)
  \/ SubNoConfirm(p)
  \/ SubConfirmSkipped(p)
  \/ \E res \in SlackResults : SubConfirmLookup(p, res)
  \/ \E res \in SlackResults : SubConfirmPost(p, res)

\* every step of a started process; the completion call ends in one of
\* `outcomes`
SubStep(p, outcomes) ==
  \/ SubClassify(p, outcomes)
  \/ SubBuild(p)
  \/ SubOtherSteps(p)

\* ------------------------------------------------------------------------
\* Specifications
\* ------------------------------------------------------------------------

Standups ==
  {[yesterday |-> "Fixed the login bug", today |-> "Write docs", blockers |-> None],
   [yesterday |-> "Reviewed PRs", today |-> "I'm stuck on deploy", blockers |-> None],
   [yesterday |-> "Fixed the login bug", today |-> "Write docs",
    blockers |-> Some("Waiting for DevOps")],
   [yesterday |-> "Fixed the login bug", today |-> "Write docs", blockers |-> Some("")],
   [yesterday |-> "Reviewed PRs", today |-> "Write docs", blockers |-> Some("none today")]}

Envs ==
  [api_key : BOOLEAN, base_id : BOOLEAN, table_id : BOOLEAN,
   slack_token : BOOLEAN, scrum_master_email : BOOLEAN]

\* the invocations of the single-run specification
Invocations ==
  {[user_email |-> e, env |-> env, yesterday |-> st.yesterday, today |-> st.today,
    blockers |-> st.blockers, notify |-> n] :
     e \in {None, Some(""), Some(JaneEmail), Some(BobEmail)}, env \in Envs,
     st \in Standups, n \in BOOLEAN}

\* the completion outcomes of the single-run specification
SubOutcomes ==
  {Raises, NoContent,
   Text("{\"has_blockers\": true, \"summary\": \"waiting on X\"}"),
   Text("{\"has_blockers\": false, \"summary\": \"No blockers identified\"}"),
   Text("{\"has_blockers\": \"false\", \"summary\": \"none\"}"),
   Text("{}"), Text("{\"has_blockers\": true}"), Text("42"),
   Text("True: blocker found")}

\* Submitter: one invocation against any of the initial tables
Next ==
  \/ SubStart(1, Invocations, 1)
  \/ SubStep(1, SubOutcomes)

Init == SubInit /\ ClIdle /\ NtfIdle /\ RepIdle

Spec == Init /\ [][Next]_vars

\* process p takes a step: every step of SubStep moves pc
ProcStep(p) == sub'[p].pc # sub[p].pc

\* the process does not stay for ever in the classification or in the
\* building of the payload: the completion call returns or raises (it has
\* a timeout), and the rest is local computation
LocalWorkEnds(p) ==
  []<>(sub[p].pc \notin {"classify", "build"}) \/ []<><<ProcStep(p)>>_vars

\* Submitter: one invocation in which every external call returns or raises,
\* so that the process, being sequential, takes its next step whenever one
\* is due
SpecLive ==
  Init /\ [][Next]_vars /\ WF_vars(SubOtherSteps(1)) /\ LocalWorkEnds(1)

\* Submitter: invocations one after another, each run to its end before
\* the next starts
MaxRuns == 2

SeqInvocations ==
  {[user_email |-> Some(e),
    env |-> [api_key |-> TRUE, base_id |-> TRUE, table_id |-> TRUE,
             slack_token |-> tok, scrum_master_email |-> TRUE],
    yesterday |-> "Fixed the login bug", today |-> "Write docs",
    blockers |-> Some("Waiting for DevOps"), notify |-> n] :
     e \in {JaneEmail, BobEmail}, tok \in BOOLEAN, n \in BOOLEAN}

SeqOutcomes ==
  {Raises, Text("{\"has_blockers\": false, \"summary\": \"No blockers identified\"}"),
   Text("{}")}

NextSeq ==
  \/ SubStart(1, SeqInvocations, MaxRuns)
  \/ SubStep(1, SeqOutcomes)

SpecSeq == Init /\ [][NextSeq]_vars

\* one call of analyze_blockers_with_llm
InitClassify == ClInit /\ NtfIdle /\ RepIdle /\ SubIdle

SpecClassify == InitClassify /\ [][ClAnalyze]_vars

\* one run of the Notifier
InitNotify == NtfInit /\ ClIdle /\ RepIdle /\ SubIdle

SpecNotify == InitNotify /\ [][NtfNext]_vars

\* one run of the Reporter
InitReport == RepInit /\ ClIdle /\ NtfIdle /\ SubIdle

SpecReport == InitReport /\ [][RepNext]_vars

\* Submitter: two invocations for the same user whose steps interleave,
\* each step being one remote call or the local work between two calls
ConcInvocations ==
  {[user_email |-> Some(JaneEmail),
    env |-> [api_key |-> TRUE, base_id |-> TRUE, table_id |-> TRUE,
             slack_token |-> tok, scrum_master_email |-> tok],
    yesterday |-> "Fixed the login bug", today |-> "Write docs",
    blockers |-> Some("Waiting for DevOps"), notify |-> n] :
     tok \in BOOLEAN, n \in BOOLEAN}

ConcOutcomes ==
  {Raises, Text("{\"has_blockers\": false, \"summary\": \"No blockers identified\"}")}

ConcTables ==
  {<<FullRow(1, BobEmail, "Waiting for DevOps")>>,
   <<FullRow(1, BobEmail, "Waiting for DevOps"), FullRow(2, JaneEmail, "")>>}

InitConc ==
  /\ sub = [p \in Procs |-> Fresh] /\ runs = 0 /\ table \in ConcTables
  /\ ClIdle /\ NtfIdle /\ RepIdle

NextConc ==
  \E p \in Procs :
    \/ SubStart(p, ConcInvocations, Cardinality(Procs))
    \/ SubStep(p, ConcOutcomes)

SpecConc == InitConc /\ [][NextConc]_vars

\* one run of the Notifier started by the notify_standup tool
InitTool == NtfToolInit /\ ClIdle /\ RepIdle /\ SubIdle

SpecTool == InitTool /\ [][NtfNext]_vars

\* one run of any one of the three procedures
InitAny == Init \/ InitNotify \/ InitReport

NextAny ==
  \/ ntf.pc = "idle" /\ rep.pc = "idle" /\ Next
  \/ NtfNext
  \/ RepNext

SpecAny == InitAny /\ [][NextAny]_vars

\* ------------------------------------------------------------------------
\* Properties
\* ------------------------------------------------------------------------

\* the positions of the calls of run r whose operation is in ops
CallsOf(r, ops) == {k \in 1..Len(r.calls) : r.calls[k].op \in ops}

WriteOps == {"update", "create"}

\* C1: when the lookup or the post for recipient i ends with an error status
\* (non-200, or ok = false), notify_user is still invoked for every
\* recipient after i: once the Notifier has ended, each later recipient has
\* had its lookup.
C1_BatchIsolatesFailures ==
  ntf.pc \in {"done", "exited"} =>
    \A k \in 1..Len(ntf.calls) :
      ntf.calls[k].res = "bad_status" =>
        \A j \in (ntf.calls[k].i + 1)..Len(ntf.emails) :
          \E m \in 1..Len(ntf.calls) :
            ntf.calls[m].i = j /\ ntf.calls[m].op = "lookup"

\* C2: after any sequence of Submitter runs, each run to its end, the table
\* holds at most one row created for each submitting email.
C2_OneRowPerSubmitter ==
  Ended(1) =>
    \A e \in {JaneEmail, BobEmail} :
      Cardinality({k \in 1..Len(table) : table[k].by = e}) <= 1

\* C3: the payload of every update or create call names only fields of the
\* field set discovered in that run.
C3_PayloadWithinSchema ==
  \A p \in Procs :
    \A k \in CallsOf(sub[p], WriteOps) :
      sub[p].calls[k].keys \subseteq sub[p].available_fields

C3_Witness ==
  \E k \in CallsOf(sub[1], WriteOps) :
    /\ sub[1].available_fields = {"Email", "Yesterday", "Today"}
    /\ sub[1].calls[k].keys = {"Email", "Yesterday", "Today"}
    /\ sub[1].calls[k].res = "ok"

\* C4: whatever the completion call returns or raises, the run does not
\* end in the fatal exit because of classification: a run that made the
\* completion call and failed had gone on to its record write.
C4_ClassificationNeverFatal ==
  \A p \in Procs :
    (sub[p].pc = "failed" /\ CallsOf(sub[p], {"completion"}) # {}) =>
      CallsOf(sub[p], WriteOps) # {}

\* C5: a run whose record write succeeded does not exit non-zero, whatever
\* happens in schema discovery, escalation or confirmation.
C5_AuxiliaryFailuresNotFatal ==
  \A p \in Procs :
    (\E k \in CallsOf(sub[p], WriteOps) : sub[p].calls[k].res = "ok") =>
      sub[p].pc # "failed"

\* C6: the document the Reporter emits has one report entry per returned
\* row, in row order, and its has_blockers is true exactly when some row
\* has a Blockers value other than the empty string.
C6_ReportMatchesRows ==
  rep.pc = "done" =>
    LET doc == RepDocument
    IN  /\ Len(doc.reports) = Len(rep.rows)
        /\ \A i \in 1..Len(rep.rows) :
             LET f == rep.rows[i].fields
             IN  /\ doc.reports[i].email = FieldGet(f, "Email", JStr("Unknown"))
                 /\ doc.reports[i].yesterday = FieldGet(f, "Yesterday", JStr("No update provided"))
                 /\ doc.reports[i].today = FieldGet(f, "Today", JStr("No update provided"))
                 /\ doc.reports[i].blockers = FieldGet(f, "Blockers", JNull)
        /\ doc.has_blockers =
             \E i \in 1..Len(rep.rows) :
               /\ "Blockers" \in DOMAIN rep.rows[i].fields
               /\ rep.rows[i].fields["Blockers"] # JStr("")

C6_Witness ==
  /\ rep.pc = "done"
  /\ Len(rep.rows) = 2
  /\ "Blockers" \in DOMAIN rep.rows[1].fields
  /\ rep.rows[1].fields["Blockers"] = JStr("")
  /\ "Blockers" \notin DOMAIN rep.rows[2].fields
  /\ ~RepDocument.has_blockers

\* the run has made its update or create call
WriteAttempted(r) == CallsOf(r, WriteOps) # {}

\* the id of the first row of the table whose Email is the user's
FirstMatchId(user_email) ==
  LET k == CHOOSE k \in 1..Len(table) :
             /\ FieldGet(table[k].fields, "Email", JNull) = JStr(user_email)
             /\ \A j \in 1..(k - 1) :
                  FieldGet(table[j].fields, "Email", JNull) # JStr(user_email)
  IN  table[k].id

\* C7: a run issues at most one write call, never an update and a create;
\* when Email was discovered and the lookup returned a match, the write is
\* one update of the first matching row and there is no create.
C7_UpdateXorCreate ==
  \A p \in Procs :
    LET r == sub[p]
    IN  /\ Cardinality(CallsOf(r, WriteOps)) <= 1
        /\ (WriteAttempted(r) /\ "Email" \in r.available_fields
              /\ r.existing_records # <<>>) =>
             /\ CallsOf(r, {"create"}) = {}
             /\ \A k \in CallsOf(r, {"update"}) :
                  r.calls[k].id = FirstMatchId(r.user_email[1])

C7_Witness ==
  /\ sub[1].pc = "done"
  /\ Len(sub[1].existing_records) = 2
  /\ \E k \in CallsOf(sub[1], {"update"}) :
       sub[1].calls[k].id = 1 /\ sub[1].calls[k].res = "ok"
  /\ Len(table) = 2

\* C8: every create call writes a row that includes Email and Name,
\* whatever field set was discovered.
C8_CreateIncludesIdentity ==
  \A p \in Procs :
    \A k \in CallsOf(sub[p], {"create"}) :
      {"Email", "Name"} \subseteq sub[p].calls[k].keys

\* the keywords as the specification lists them
KeywordSet ==
  {"blocked", "blocker", "impediment", "waiting for", "can't", "unable",
   "stuck", "issue", "problem"}

\* k occurs somewhere in s
OccursIn(s, k) == \E i \in 1..Len(s) : StartsAt(s, k, i)

\* C9: when the completion call raises, the result's has_blockers is true
\* exactly when the lower-cased "yesterday today blockers" text contains
\* one of the fixed keywords.
C9_KeywordFallback ==
  (cl.pc = "returned" /\ cl.outcome.kind = "raises") =>
    LET text == Lower(cl.yesterday \o " " \o cl.today \o " " \o OrEmpty(cl.blockers))
    IN  /\ HasKey(cl.result, "has_blockers")
        /\ GetKey(cl.result, "has_blockers") =
             JBool(\E k \in KeywordSet : OccursIn(text, k))

C9_Witness ==
  /\ cl.pc = "returned"
  /\ cl.outcome.kind = "raises"
  /\ cl.yesterday = "Fixed the login bug"
  /\ cl.today = "I'm stuck"
  /\ cl.blockers = None
  /\ GetKey(cl.result, "has_blockers") = JBool(TRUE)

\* what C10 says the result is, for the response text s
FromTextAlone(s) ==
  LET parsed == JsonLoads(s)
      low == Lower(s)
      has == OccursIn(low, "true") /\ (OccursIn(low, "blocker") \/ OccursIn(low, "impediment"))
  IN  IF parsed.ok THEN parsed.v
      ELSE Analysis(has, IF has THEN s ELSE "No blockers identified")

\* C10 as stated: whenever the completion call succeeds the keyword
\* fallback is not consulted and the result is determined by the raw
\* response text (summary = the raw text when the heuristic flags it).
C10_AsStated ==
  (cl.pc = "returned" /\ cl.outcome.kind # "raises") =>
    /\ cl.path # "keyword_fallback"
    /\ cl.result = FromTextAlone(cl.outcome.text)

\* C10 amended: when the completion call returns text, the keyword fallback
\* is not consulted and the result is determined by the text with the white
\* space around it stripped (summary = the stripped text when the heuristic
\* flags it).
C10_FromStrippedText ==
  (cl.pc = "returned" /\ cl.outcome.kind = "text") =>
    /\ cl.path # "keyword_fallback"
    /\ cl.result = FromTextAlone(Strip(cl.outcome.text))

C10_Witness ==
  /\ cl.pc = "returned"
  /\ cl.outcome = Text(" true, an impediment\n")
  /\ cl.today = "I'm stuck"
  /\ cl.path = "response_heuristic"
  /\ cl.result = Analysis(TRUE, "true, an impediment")

\* the run is past the escalation step of submit_standup_to_airtable
PastEscalation(r) == r.pc \in {"returned", "confirm_post", "done"} \/ r.cause = "confirmation"

\* the run's update or create call returned
WriteSucceeded(r) == \E k \in CallsOf(r, WriteOps) : r.calls[k].res = "ok"

\* C11: in a run whose write succeeded and that is past the escalation
\* step, the scrum-master lookup was issued exactly when the classification's
\* has_blockers is truthy and both SLACK_API_TOKEN and SCRUM_MASTER_EMAIL
\* are set; otherwise neither the escalation lookup nor the post was issued.
\* The lookup is issued once, and a post only after a lookup that resolved.
C11_EscalationIffFlaggedAndConfigured ==
  \A p \in Procs :
    LET r == sub[p]
        due == /\ Truthy(GetKey(r.blocker_analysis, "has_blockers"))
               /\ r.env.slack_token
               /\ r.env.scrum_master_email
    IN  /\ (WriteSucceeded(r) /\ PastEscalation(r)) =>
             /\ due <=> CallsOf(r, {"sm_lookup"}) # {}
             /\ ~due => CallsOf(r, {"sm_lookup", "sm_post"}) = {}
        /\ Cardinality(CallsOf(r, {"sm_lookup"})) <= 1
        /\ \A k \in CallsOf(r, {"sm_post"}) :
             k > 1 /\ r.calls[k - 1] = Call("sm_lookup", "ok", 0, {})

C11_Witness ==
  /\ sub[1].pc = "done"
  /\ WriteSucceeded(sub[1])
  /\ sub[1].blocker_analysis = Analysis(TRUE, "No blockers identified")
  /\ sub[1].env.slack_token /\ sub[1].env.scrum_master_email
  /\ CallsOf(sub[1], {"sm_lookup"}) # {}
  /\ CallsOf(sub[1], {"sm_post"}) # {}

\* the calls that send or prepare the escalation and the confirmation
MessageOps == {"sm_lookup", "sm_post", "confirm_lookup", "confirm_post"}

\* C12: a run whose update or create call raised is in the fatal exit with
\* status 1 and that call is its last: no escalation or confirmation call
\* follows.  Every escalation or confirmation call of a run comes after a
\* write call of that run that returned.
C12_FailedWriteEndsRun ==
  \A p \in Procs :
    LET r == sub[p]
    IN  /\ \A k \in CallsOf(r, WriteOps) :
             r.calls[k].res = "raises" =>
               /\ r.pc = "failed"
               /\ r.exit_code = 1
               /\ k = Len(r.calls)
               /\ CallsOf(r, MessageOps) = {}
        /\ \A k \in CallsOf(r, MessageOps) :
             \E j \in CallsOf(r, WriteOps) : j < k /\ r.calls[j].res = "ok"

C12_Witness ==
  /\ sub[1].pc = "failed"
  /\ sub[1].cause = "write"
  /\ sub[1].notify
  /\ sub[1].env.slack_token /\ sub[1].env.scrum_master_email
  /\ sub[1].blocker_analysis = Analysis(TRUE, "Waiting for DevOps")
  /\ \E k \in CallsOf(sub[1], {"update"}) : sub[1].calls[k].res = "raises"

\* one of the four required settings of the run is absent (not set, or set
\* to the empty string)
RequiredSettingAbsent(r) ==
  \/ r.user_email = None
  \/ r.user_email = Some("")
  \/ ~r.env.api_key
  \/ ~r.env.base_id
  \/ ~r.env.table_id

\* C13: a started run with a required setting absent makes no remote call
\* (no completion, table or Slack call is in its log, and the table is
\* untouched), and once it has taken its first step it is in the fatal
\* exit with status 1.
C13_MissingSettingFailsFast ==
  \A p \in Procs :
    LET r == sub[p]
    IN  (r.pc # "idle" /\ RequiredSettingAbsent(r)) =>
          /\ r.calls = <<>>
          /\ table \in InitialTables
          /\ r.pc \in {"main", "failed"}
          /\ r.pc = "failed" => (r.exit_code = 1 /\ r.cause # "")

C13_Witness ==
  /\ sub[1].pc = "failed"
  /\ sub[1].user_email = Some(JaneEmail)
  /\ sub[1].env.api_key /\ sub[1].env.base_id /\ ~sub[1].env.table_id
  /\ sub[1].cause = "missing AIRTABLE_TABLE_ID"
  /\ sub[1].calls = <<>>

\* the run ended in the success state: exit status 0
Succeeded(r) == r.pc = "done" /\ r.exit_code = 0

\* the run ended in the fatal exit: status 1 and a printed cause
FailedWithCause(r) == r.pc = "failed" /\ r.exit_code = 1 /\ r.cause # ""

\* C14: a started run reaches a terminal state, and a terminal state is
\* either success, with exactly one write call in the run and that call
\* returned, or the fatal exit with status 1 and a printed cause, never
\* both; no run ends in success without a record write.
C14_RunTerminates ==
  /\ (sub[1].pc = "main") ~> (sub[1].pc \in {"done", "failed"})
  /\ [](sub[1].pc \in {"done", "failed"} =>
          /\ Succeeded(sub[1]) \/ FailedWithCause(sub[1])
          /\ ~(Succeeded(sub[1]) /\ FailedWithCause(sub[1])))
  /\ [](Succeeded(sub[1]) =>
          /\ Cardinality(CallsOf(sub[1], WriteOps)) = 1
          /\ WriteSucceeded(sub[1]))

C14_Witness ==
  /\ Succeeded(sub[1])
  /\ sub[1].available_fields = {}
  /\ \E k \in CallsOf(sub[1], {"discover"}) : sub[1].calls[k].res = "raises"
  /\ \E k \in CallsOf(sub[1], {"create"}) :
       sub[1].calls[k].res = "ok" /\ sub[1].calls[k].keys = {}
  /\ Len(table) = 1

\* the calls that read the rows of the table
TableReads == {"discover", "lookup", "manual_search"}

\* the parts of "no retry" that do hold: a Submitter run issues each of its
\* calls at most once; the Notifier issues at most one lookup and one post
\* per recipient, and none for a recipient after a call for that recipient
\* failed; the Reporter queries the table at most once
EachCallOnce ==
  /\ \A p \in Procs :
       \A j, k \in 1..Len(sub[p].calls) :
         sub[p].calls[j].op = sub[p].calls[k].op => j = k
  /\ \A j, k \in 1..Len(ntf.calls) :
       /\ (ntf.calls[j].i = ntf.calls[k].i /\ ntf.calls[j].op = ntf.calls[k].op) => j = k
       /\ (j < k /\ ntf.calls[j].res # "ok") => ntf.calls[k].i # ntf.calls[j].i
  /\ rep.queries <= 1
  /\ rep.pc = "exited" /\ rep.configured => rep.queries = 1

\* C15 as stated: no call is issued again after it failed, and after the
\* existing-record query of the Submitter failed the table is not read
\* again in that run.
C15_AsStated ==
  /\ EachCallOnce
  /\ \A p \in Procs :
       \A j, k \in 1..Len(sub[p].calls) :
         (j < k /\ sub[p].calls[j] = Call("lookup", "raises", 0, {})) =>
           sub[p].calls[k].op \notin TableReads

\* C15 amended: no call is issued again with the same request; the one
\* fallback is the manual search, an unfiltered read of the table issued
\* once, directly after the existing-record query raised, and followed by
\* no further read of the table, whether it returns or raises.  A failed
\* schema discovery is followed by no read of the table either.
C15_OnlyManualSearchFollowsFailedLookup ==
  /\ EachCallOnce
  /\ \A p \in Procs :
       LET calls == sub[p].calls
       IN  /\ \A k \in CallsOf(sub[p], {"manual_search"}) :
                k > 1 /\ calls[k - 1] = Call("lookup", "raises", 0, {})
           /\ \A j, k \in 1..Len(calls) :
                (j < k /\ calls[j].op \in {"discover", "manual_search"}
                       /\ calls[j].res = "raises") =>
                  calls[k].op \notin TableReads
           /\ \A j, k \in 1..Len(calls) :
                (j < k /\ calls[j].op = "manual_search") => calls[k].op \notin TableReads
           /\ (sub[p].pc \in {"write", "escalate", "returned", "done"}
                 /\ \E j \in CallsOf(sub[p], {"lookup"}) : calls[j].res = "raises") =>
                CallsOf(sub[p], {"manual_search"}) # {}

C15_Witness ==
  /\ sub[1].pc = "done"
  /\ \E k \in 1..Len(sub[1].calls) :
       /\ sub[1].calls[k] = Call("lookup", "raises", 0, {})
       /\ sub[1].calls[k + 1] = Call("manual_search", "ok", 0, {})
       /\ sub[1].calls[k + 2].op = "update"
       /\ sub[1].calls[k + 2].res = "ok"

\* the elements of a sequence
Elements(seq) == {seq[i] : i \in 1..Len(seq)}

\* C16: once the script started by the notify_standup tool is past its
\* argument parsing, the addresses it iterates over are the addresses of
\* team_emails, and when it has run to its end with the token set every
\* address of team_emails has had its lookup.
C16_EveryTeamEmailLookedUp ==
  /\ ntf.pc \notin {"idle", "main"} =>
       Elements(ntf.emails) = Elements(ntf.team_emails)
  /\ (ntf.pc = "done" /\ ntf.token) =>
       \A e \in Elements(ntf.team_emails) :
         \E k \in 1..Len(ntf.calls) :
           ntf.calls[k].op = "lookup" /\ ntf.calls[k].email = e

\* the rows of the table whose Email is the given address
RowsOf(user_email) ==
  {k \in 1..Len(table) : FieldGet(table[k].fields, "Email", JNull) = JStr(user_email)}

\* every read of the table the run made returned
ReadsReturned(r) == \A k \in CallsOf(r, TableReads) : r.calls[k].res = "ok"

\* C17: when two invocations for the same email have both ended, however
\* their steps interleaved, and every read of the table they made returned,
\* the table holds at most one row with that Email.
C17_ConcurrentRunsKeepOneRow ==
  (\A p \in Procs : sub[p].pc \in {"done", "failed"} /\ ReadsReturned(sub[p])) =>
    Cardinality(RowsOf(JaneEmail)) <= 1

\* in run r every call with an operation of `later` has before it a call
\* with the operation `earlier`
Precedes(r, earlier, later) ==
  \A k \in CallsOf(r, later) : \E j \in CallsOf(r, {earlier}) : j < k

\* C18 as stated: in every run the schema-discovery read is issued before
\* the completion call, and both come before the existing-record lookup and
\* the record write.
C18_AsStated ==
  \A p \in Procs :
    /\ Precedes(sub[p], "discover", {"completion"})
    /\ Precedes(sub[p], "discover", {"lookup", "manual_search"} \cup WriteOps)
    /\ Precedes(sub[p], "completion", {"lookup", "manual_search"} \cup WriteOps)

\* C18 amended: in every run the completion call is issued before the
\* schema-discovery read, and both come before the existing-record lookup
\* and the record write.
C18_ClassifyThenDiscover ==
  \A p \in Procs :
    /\ Precedes(sub[p], "completion", {"discover"})
    /\ Precedes(sub[p], "discover", {"lookup", "manual_search"} \cup WriteOps)
    /\ Precedes(sub[p], "completion", {"lookup", "manual_search"} \cup WriteOps)

C18_Witness ==
  /\ sub[1].pc = "done"
  /\ Len(sub[1].calls) = 4
  /\ sub[1].calls[1].op = "completion"
  /\ sub[1].calls[2] = Call("discover", "ok", 0, {})
  /\ sub[1].calls[3] = Call("lookup", "ok", 0, {})
  /\ sub[1].calls[4].op = "update"

\* the completion call of the run raised
CompletionRaised(r) ==
  \E k \in CallsOf(r, {"completion"}) : r.calls[k].res = "raises"

\* C19: in a run whose completion call raised, the summary is the blockers
\* text exactly when that text is non-empty and a keyword matched, and is
\* "No blockers identified" otherwise; a message posted to the scrum master
\* carries that summary.  When a keyword matched and there is no blockers
\* text, has_blockers is true with the summary "No blockers identified",
\* the escalation is attempted once the write has succeeded and both
\* settings are present, and the message posted carries that summary.
C19_FallbackSummary ==
  \A p \in Procs :
    LET r == sub[p]
        text == Lower(r.yesterday \o " " \o r.today \o " " \o OrEmpty(r.blockers))
        matched == \E k \in KeywordSet : OccursIn(text, k)
        nonempty == r.blockers # None /\ r.blockers[1] # ""
        summary == IF nonempty /\ matched THEN r.blockers[1] ELSE "No blockers identified"
        posted == CallsOf(r, {"sm_post"}) # {}
    IN  CompletionRaised(r) =>
          /\ r.blocker_analysis = Analysis(matched, summary)
          /\ posted => r.escalation = JStr(summary)
          /\ (matched /\ ~nonempty) =>
                /\ GetKey(r.blocker_analysis, "has_blockers") = JBool(TRUE)
                /\ GetKey(r.blocker_analysis, "summary") = JStr("No blockers identified")
                /\ (WriteSucceeded(r) /\ PastEscalation(r)
                      /\ r.env.slack_token /\ r.env.scrum_master_email) =>
                     CallsOf(r, {"sm_lookup"}) # {}
                /\ posted => r.escalation = JStr("No blockers identified")

C19_Witness ==
  /\ CompletionRaised(sub[1])
  /\ sub[1].today = "I'm stuck on deploy"
  /\ sub[1].blockers = None
  /\ sub[1].blocker_analysis = Analysis(TRUE, "No blockers identified")
  /\ \E k \in CallsOf(sub[1], {"sm_post"}) : sub[1].calls[k].res = "ok"
  /\ sub[1].escalation = JStr("No blockers identified")

====
